---- MODULE Spec2Model ----
(***************************************************************************)
(* Model of the FHEVM universal SDK client                                 *)
(* (packages/fhevm-sdk: FhevmClientImpl, EncryptedInputBuilderImpl).       *)
(*                                                                         *)
(* Spec      the client's lazy initialization, the six scalar encrypt      *)
(*           operations and the encrypted-input builder, under arbitrary   *)
(*           interleavings of the promise continuations.                   *)
(* PollSpec  one awaitDecryption call against an arbitrary gateway, with   *)
(*           a millisecond clock.  LivePollSpec adds the fairness the      *)
(*           event loop gives (a pending fetch settles, a timer fires).    *)
(*                                                                         *)
(* Values are encoded as integers: a boolean as 0/1, an address as the     *)
(* number it denotes.  The engine (fhevmjs) and the gateway are external:  *)
(* their answers are nondeterministic choices.                             *)
(***************************************************************************)
EXTENDS Integers, Sequences, FiniteSets, TLC

\* ---------------------------------------------------------------- bounds
NumOps == 2
MaxInputs == 2
MaxClock == 3
MaxRequests == 3
MaxLookups == 3
MaxCalls == 2
MaxEffects == 3
MaxBatch == 2

\* ------------------------------------------------------- program constants
maxAttempts == 30
delayMs == 2000

\* ------------------------------------------------------------- data sets
Ops == 1..NumOps

Tags == {"euint8", "euint16", "euint32", "euint64", "ebool", "eaddress"}

ScalarKinds == {"encrypt8", "encrypt16", "encrypt32", "encrypt64",
                "encryptBool", "encryptAddress"}

Kinds == ScalarKinds \cup {"getEncrypted"}

\* the arguments the callers pass
ValuesOf(tag) ==
  CASE tag = "euint8"   -> {10, 255}
    [] tag = "euint16"  -> {65535}
    [] tag = "euint32"  -> {500}
    [] tag = "euint64"  -> {1000}
    [] tag = "ebool"    -> {1}
    [] tag = "eaddress" -> {4660}

TagOfKind(kind) ==
  CASE kind = "encrypt8"       -> "euint8"
    [] kind = "encrypt16"      -> "euint16"
    [] kind = "encrypt32"      -> "euint32"
    [] kind = "encrypt64"      -> "euint64"
    [] kind = "encryptBool"    -> "ebool"
    [] kind = "encryptAddress" -> "eaddress"

ArgsOf(kind) == IF kind = "getEncrypted" THEN {0} ELSE ValuesOf(TagOfKind(kind))

\* The bit width of an unsigned-integer tag.
Bits(tag) ==
  CASE tag = "euint8"  -> 8
    [] tag = "euint16" -> 16
    [] tag = "euint32" -> 32
    [] tag = "euint64" -> 64

IntTags == {"euint8", "euint16", "euint32", "euint64"}

\* Arguments around the limits of each tag's domain.  The checker's integers
\* end below 2^31, so the upper limit is only drawn for 8 and 16 bits; -1 and
\* 0 are drawn for every width.  A malformed address is written -1.
BoundaryValuesOf(tag) ==
  CASE tag \in {"euint8", "euint16"} -> {-1, 0, 2^Bits(tag) - 1, 2^Bits(tag)}
    [] tag \in {"euint32", "euint64"} -> {-1, 0}
    [] tag = "ebool"    -> {1}
    [] tag = "eaddress" -> {-1, 4660}

BoundaryArgsOf(kind) ==
  IF kind = "getEncrypted" THEN {0} ELSE BoundaryValuesOf(TagOfKind(kind))

NoUrl == ""
OverrideUrl == "https://gateway.override"
ProfileUrl == "https://gateway.sepolia.zama.ai"

\* an address that is absent, and the addresses a config and a profile carry
NoAddress == ""
OverrideAcl == "0xacl.override"
ProfileAcl == "0x339EcE85B9E11a3A3AA557582784a15d7F82AAf2"
OverrideKms == "0xkms.override"
ProfileKms == "0x12345..."

\* ---------------------------------------------------------------- state
VARIABLES
  config,          \* FhevmClientImpl.config (read-only after construction)
  instance,        \* FhevmClientImpl.instance: 0 is null, n > 0 the n-th engine handle
  isInitialized,   \* FhevmClientImpl.isInitialized
  keyFetches,      \* number of GET {gateway}/fhe-key requests issued
  enginesCreated,  \* number of engine handles createInstance has produced
  ops,             \* the operations started on the client, each with its position
  builder,         \* the EncryptedInputBuilderImpl under observation
  inputs,          \* EncryptedInputBuilderImpl.inputs
  addLog,          \* the addX calls made on the builder, in call order
  aw,              \* the awaitDecryption call under observation
  clock,           \* Date.now(), in ms
  requests,        \* the DecryptionRequests requestDecryption has returned
  lookups,         \* the NETWORKS lookups made, each with what it returned
  hook,            \* a useEncrypt / useEncryptedInput / useDecrypt hook and its calls
  fh,              \* a useFhevm hook and the runs of its effect
  batch            \* the batchEncrypt call under observation

vars == <<config, instance, isInitialized, keyFetches, enginesCreated,
          ops, builder, inputs, addLog, aw, clock, requests, lookups,
          hook, fh, batch>>

\* what the client and the builder never touch
restVars == <<clock, requests, lookups, hook, fh, batch>>

\* what the hooks and batchEncrypt leave alone
coreVars == <<config, instance, isInitialized, keyFetches, enginesCreated,
              ops, builder, inputs, addLog, aw, clock, requests, lookups>>

clientVars == <<config, instance, isInitialized, keyFetches, enginesCreated,
                ops, builder, inputs, addLog>>

\* ------------------------------------------------- FhevmClientImpl helpers
\* An operation that has not been called yet.
IdleOp == [pc |-> "idle", kind |-> "none", value |-> 0, wasInit |-> FALSE,
           url |-> <<>>, publicKey |-> "none", engineArgs |-> <<>>,
           engineBuilders |-> <<>>, encryptSteps |-> 0,
           handle |-> 0, calls |-> <<>>, result |-> <<>>, error |-> "none"]

\* An operation whose promise was rejected with error err: its locals are gone.
Failed(op, err) ==
  [IdleOp EXCEPT !.pc = "failed", !.error = err]

\* this.config.gatewayUrl || this.config.network.gatewayUrl
GatewayUrlProfileFirst ==
  IF config.network.gatewayUrl # NoUrl THEN config.network.gatewayUrl ELSE config.gatewayUrl

GatewayUrlDefaulted ==
  IF config.gatewayUrl # NoUrl THEN config.gatewayUrl
  ELSE IF config.network.gatewayUrl # NoUrl THEN config.network.gatewayUrl
  ELSE ProfileUrl

GatewayUrl ==
  IF config.gatewayUrl # NoUrl THEN config.gatewayUrl ELSE config.network.gatewayUrl

\* this.config.aclAddress || this.config.network.aclAddress
AclAddress ==
  IF config.aclAddress # NoAddress THEN config.aclAddress ELSE config.network.aclAddress

\* this.config.kmsVerifierAddress || this.config.network.kmsVerifierAddress
KmsVerifierAddress ==
  IF config.kmsVerifierAddress # NoAddress
    THEN config.kmsVerifierAddress ELSE config.network.kmsVerifierAddress

\* the object ensureInitialized passes to createInstance, but for publicKey
EngineArgs ==
  [chainId |-> config.network.chainId, gatewayUrl |-> GatewayUrl,
   aclAddress |-> AclAddress, kmsVerifierAddress |-> KmsVerifierAddress]

\* `${gatewayUrl}/fhe-key`
KeyUrl == <<GatewayUrl, "/fhe-key">>

\* `${gatewayUrl}/decrypt/${requestId}`
DecryptUrl(requestId) == <<GatewayUrl, "/decrypt/", requestId>>

\* the test of ensureInitialized: !this.instance || !this.isInitialized
NeedsInitAlways == TRUE

NeedsInitNever == FALSE

NeedsInit == instance = 0 \/ ~isInitialized

\* the engine primitive each client method delegates to
PrimitiveOfCopied(kind) == IF kind = "encrypt16" THEN "encrypt8" ELSE kind

PrimitiveOf(kind) == kind

\* the engine add-method getEncrypted's switch selects for a stored type tag
AddMethodSwapped(type) ==
  CASE type = "euint8"   -> "add16"
    [] type = "euint16"  -> "add8"
    [] type = "euint32"  -> "add32"
    [] type = "euint64"  -> "add64"
    [] type = "ebool"    -> "addBool"
    [] type = "eaddress" -> "addAddress"

AddMethodOf(type) ==
  CASE type = "euint8"   -> "add8"
    [] type = "euint16"  -> "add16"
    [] type = "euint32"  -> "add32"
    [] type = "euint64"  -> "add64"
    [] type = "ebool"    -> "addBool"
    [] type = "eaddress" -> "addAddress"

\* the type tag each builder addX method stores
TagOfAddCopied(method) ==
  CASE method = "add8"       -> "euint8"
    [] method = "add16"      -> "euint8"
    [] method = "add32"      -> "euint32"
    [] method = "add64"      -> "euint64"
    [] method = "addBool"    -> "ebool"
    [] method = "addAddress" -> "eaddress"

TagOfAdd(method) ==
  CASE method = "add8"       -> "euint8"
    [] method = "add16"      -> "euint16"
    [] method = "add32"      -> "euint32"
    [] method = "add64"      -> "euint64"
    [] method = "addBool"    -> "ebool"
    [] method = "addAddress" -> "eaddress"

AddMethods == {"add8", "add16", "add32", "add64", "addBool", "addAddress"}

\* the loop of getEncrypted: one engine add-call per stored input, in order
ReplayReversed(ins) ==
  [i \in 1..Len(ins) |-> [method |-> AddMethodOf(ins[Len(ins) + 1 - i].type),
                          value  |-> ins[Len(ins) + 1 - i].value]]

Replay(ins) ==
  [i \in 1..Len(ins) |-> [method |-> AddMethodOf(ins[i].type), value |-> ins[i].value]]

\* what the engine hands back for a sequence of calls: one output per call
EngineOutputs(calls) == [i \in 1..Len(calls) |-> [by |-> calls[i].method, of |-> calls[i].value]]

\* the responses of GET {gateway}/fhe-key
KeyResponses == {"ok_key", "ok_nokey", "status_nokey", "not_json", "network_error"}

\* ------------------------------------------------------- awaitDecryption
MaxLatency == 100

\* what a caller passes as the second argument of awaitDecryption
NoOptions == [given |-> FALSE, timeout |-> 0, pollInterval |-> 0]

NoAwait == [pc |-> "idle", requestId |-> 0, opts |-> NoOptions, i |-> 0,
            polls |-> 0, delays |-> 0, now |-> 0, lastPollAt |-> 0,
            url |-> <<>>, lastResp |-> "none", firstSuccess |-> 0, successValue |-> <<>>,
            result |-> <<>>, error |-> "none", errorRequestId |-> <<>>,
            outcomes |-> 0]

RequestIds == {7, 8}

DecryptedValues == {0, 42}

OptionSets ==
  {NoOptions,
   [given |-> TRUE, timeout |-> 50, pollInterval |-> 10],
   [given |-> TRUE, timeout |-> 1000, pollInterval |-> 10]}

\* the time a poll request takes to settle
Latencies == {0, MaxLatency}

\* the answers of GET {gateway}/decrypt/{requestId}
PollResponses == {"ok_value", "ok_novalue", "ok_not_json", "status_rejected",
                  "status_plain", "network_error"}

\* the clock stops at the latest instant a call can reach
ClockCap == maxAttempts * (delayMs + MaxLatency)

Tick(t, d) == IF t + d > ClockCap THEN ClockCap ELSE t + d

\* the counters of requests and delays stop at the number a call can reach
Count(n) == IF n < maxAttempts THEN n + 1 ELSE n

\* The body of the try block of one attempt: "resolve" when the function
\* returns data.value, "retry" when control reaches the delay.
AfterResponseRethrow(resp) ==
  CASE resp \in {"ok_value", "ok_novalue"} -> "resolve"
    [] resp = "network_error" -> "throw"
    [] OTHER -> "retry"

AfterResponseNoReturn(resp) == "retry"

AfterResponse(resp) ==
  CASE resp \in {"ok_value", "ok_novalue"} -> "resolve"    \* response.ok, json parsed
    [] resp = "ok_not_json" -> "retry"                      \* json() throws, caught
    [] resp \in {"status_rejected", "status_plain"} -> "retry"  \* !response.ok
    [] resp = "network_error" -> "retry"                    \* fetch throws, caught

\* data.value of a parsed body
BodyValue(resp, v) == IF resp = "ok_value" THEN <<v>> ELSE <<>>

\* the loop's i++
NextAttemptStuck(i) == i

NextAttempt(i) == i + 1

\* the loop test i < maxAttempts
LoopContinuesInclusive(i) == i <= maxAttempts

LoopContinues(i) == i < maxAttempts

\* awaitDecryption(requestId, opts) is called: the gateway test, then the
\* first fetch of the loop.  The options are not read.
StartAwait(requestId, opts) ==
  /\ aw.pc = "idle"
  /\ aw' = IF GatewayUrl = NoUrl
             THEN [NoAwait EXCEPT !.pc = "failed", !.requestId = requestId, !.opts = opts,
                                  !.error = "Gateway URL not configured", !.outcomes = 1]
             ELSE [NoAwait EXCEPT !.pc = "polling", !.requestId = requestId, !.opts = opts,
                                  !.polls = 1, !.url = DecryptUrl(requestId)]
  /\ UNCHANGED <<clientVars, restVars>>

\* The fetch of the current attempt settles after lat ms.
PollResponse(resp, v, lat) ==
  /\ aw.pc = "polling"
  /\ LET t == Tick(aw.now, lat)
         seen == [aw EXCEPT !.now = t, !.lastResp = resp,
                    !.firstSuccess = IF @ = 0 /\ resp = "ok_value" THEN aw.polls ELSE @,
                    !.successValue = IF aw.firstSuccess = 0 /\ resp = "ok_value"
                                       THEN <<v>> ELSE @]
     IN aw' = CASE AfterResponse(resp) = "resolve" ->
                     [seen EXCEPT !.pc = "resolved", !.result = BodyValue(resp, v),
                                  !.outcomes = @ + 1]
                [] AfterResponse(resp) = "throw" ->
                     [seen EXCEPT !.pc = "failed", !.error = "fetch failed",
                                  !.outcomes = @ + 1]
                [] OTHER -> [seen EXCEPT !.pc = "sleeping"]
  /\ UNCHANGED <<clientVars, restVars>>

\* The timer of delayMs fires: i++, then the loop test; either the next
\* fetch is issued or the timeout error is thrown.
DelayElapsed ==
  /\ aw.pc = "sleeping"
  /\ LET t == Tick(aw.now, delayMs)
         slept == [aw EXCEPT !.now = t, !.delays = Count(@), !.i = NextAttempt(@)]
     IN aw' = IF LoopContinues(slept.i)
                THEN [slept EXCEPT !.pc = "polling", !.polls = Count(@), !.lastPollAt = t,
                                   !.url = DecryptUrl(aw.requestId)]
                ELSE [slept EXCEPT !.pc = "timeout", !.outcomes = @ + 1,
                                   !.error = "Decryption timeout for request",
                                   !.errorRequestId = <<aw.requestId>>]
  /\ UNCHANGED <<clientVars, restVars>>

PollNext ==
  \/ \E requestId \in RequestIds, opts \in OptionSets : StartAwait(requestId, opts)
  \/ \E resp \in PollResponses, v \in DecryptedValues, lat \in Latencies :
        PollResponse(resp, v, lat)
  \/ DelayElapsed

\* ----------------------------------------------------- requestDecryption
Ciphertexts == {"0xc1", "0xc2"}

ContractAddresses == {51}

\* requestDecryption(ciphertext, contractAddress): the function body runs
\* to its return without suspending.  Date.now() is read twice; the clock
\* may have moved by d between the two reads.
RequestDecryption(ciphertext, contractAddress, d) ==
  /\ Len(requests) < MaxRequests
  /\ clock + d <= MaxClock
  /\ requests' = Append(requests, [requestId |-> clock,
                                    ciphertext |-> ciphertext,
                                    contractAddress |-> contractAddress,
                                    timestamp |-> clock + d])
  /\ clock' = clock + d
  /\ UNCHANGED <<clientVars, aw, lookups, hook, fh, batch>>

\* a millisecond passes
ClockTick ==
  /\ clock < MaxClock
  /\ clock' = clock + 1
  /\ UNCHANGED <<clientVars, aw, requests, lookups, hook, fh, batch>>

\* Callers request decryptions while time passes.
RequestNext ==
  \/ \E ciphertext \in Ciphertexts, contractAddress \in ContractAddresses, d \in {0, 1} :
        RequestDecryption(ciphertext, contractAddress, d)
  \/ ClockTick

\* ------------------------------------ useEncrypt, useEncryptedInput, useDecrypt
HookNames == {"useEncrypt", "useEncryptedInput", "useDecrypt"}

Calls == 1..MaxCalls

\* what the wrapped operation resolves with, and what it rejects with
HookValues == {"v1", "v2"}
HookErrors == {"E1", "E2"}

NotInitialized == "FHEVM instance not initialized"
UnsupportedType == "Unsupported encryption type"

\* the input.type values passed to useEncrypt's encrypt; the other two
\* hooks do not look at a type
HookInputTypes == {"euint8", "ebool", "euint256"}

\* an invocation of the hook's callback that was not made yet
IdleCall == [pc |-> "idle", awaiting |-> "none", outcome |-> <<>>]

\* a hook that no component has mounted yet: useState(null), useState(false),
\* useState(null)
NoHook == [name |-> "none", fhevm |-> 0, result |-> <<>>, isLoading |-> FALSE,
           error |-> <<>>, calls |-> [k \in Calls |-> IdleCall]]

\* A component renders the hook for the first time with its fhevm argument
\* (0 is null).
MountHook(name, fhevm) ==
  /\ hook.name = "none"
  /\ hook' = [hook EXCEPT !.name = name, !.fhevm = fhevm]
  /\ UNCHANGED <<coreVars, fh, batch>>

\* The component renders again with another fhevm argument: useCallback
\* hands out a callback that closes over it.
RenderHook(fhevm) ==
  /\ hook.name # "none"
  /\ hook.fhevm # fhevm
  /\ hook' = [hook EXCEPT !.fhevm = fhevm]
  /\ UNCHANGED <<coreVars, fh, batch>>

\* try { setIsLoading(true); setError(null); ...
Entered(h) == [h EXCEPT !.isLoading = TRUE, !.error = <<>>]

\* setResult(result); return result; ... finally { setIsLoading(false) }
Returned(h, v) == [h EXCEPT !.result = <<v>>, !.isLoading = FALSE]

\* catch (err) { setError(err); throw err } finally { setIsLoading(false) }
CaughtResultCleared(h, e) == [h EXCEPT !.error = <<e>>, !.isLoading = FALSE, !.result = <<>>]

Caught(h, e) == [h EXCEPT !.error = <<e>>, !.isLoading = FALSE]

\* the promise the callback first awaits
FirstAwait(name) ==
  CASE name = "useEncrypt"        -> "encryptN"
    [] name = "useEncryptedInput" -> "getEncrypted"
    [] name = "useDecrypt"        -> "requestDecryption"

\* The callback is invoked.  With fhevm null it throws before the try block.
\* Otherwise it runs up to its first await; useEncrypt's switch throws inside
\* the try block for a type it does not know.
Invoke(k, type) ==
  /\ hook.name # "none"
  /\ hook.calls[k].pc = "idle"
  /\ \A j \in Calls : j < k => hook.calls[j].pc # "idle"
  /\ hook' =
       IF hook.fhevm = 0
         THEN [hook EXCEPT !.calls[k] = [pc |-> "rejected", awaiting |-> "none",
                                         outcome |-> <<NotInitialized>>]]
       ELSE IF hook.name = "useEncrypt" /\ type \notin Tags
         THEN [Caught(Entered(hook), UnsupportedType) EXCEPT
                 !.calls[k] = [pc |-> "rejected", awaiting |-> "none",
                               outcome |-> <<UnsupportedType>>]]
         ELSE [Entered(hook) EXCEPT
                 !.calls[k] = [pc |-> "pending", awaiting |-> FirstAwait(hook.name),
                               outcome |-> <<>>]]
  /\ UNCHANGED <<coreVars, fh, batch>>

\* useDecrypt: requestDecryption has resolved, awaitDecryption is called
RequestResolved(k) ==
  /\ hook.calls[k].pc = "pending"
  /\ hook.calls[k].awaiting = "requestDecryption"
  /\ hook' = [hook EXCEPT !.calls[k].awaiting = "awaitDecryption"]
  /\ UNCHANGED <<coreVars, fh, batch>>

\* the promise the callback awaits last resolves with v
OperationResolved(k, v) ==
  /\ hook.calls[k].pc = "pending"
  /\ hook.calls[k].awaiting # "requestDecryption"
  /\ hook' = [Returned(hook, v) EXCEPT
                !.calls[k] = [pc |-> "resolved", awaiting |-> "none", outcome |-> <<v>>]]
  /\ UNCHANGED <<coreVars, fh, batch>>

\* the promise the callback awaits rejects with e
OperationRejected(k, e) ==
  /\ hook.calls[k].pc = "pending"
  /\ hook' = [Caught(hook, e) EXCEPT
                !.calls[k] = [pc |-> "rejected", awaiting |-> "none", outcome |-> <<e>>]]
  /\ UNCHANGED <<coreVars, fh, batch>>

HookNext ==
  \/ \E name \in HookNames, fhevm \in {0, 1} : MountHook(name, fhevm)
  \/ \E fhevm \in {0, 1} : RenderHook(fhevm)
  \/ \E k \in Calls, type \in HookInputTypes : Invoke(k, type)
  \/ \E k \in Calls : RequestResolved(k)
  \/ \E k \in Calls, v \in HookValues : OperationResolved(k, v)
  \/ \E k \in Calls, e \in HookErrors : OperationRejected(k, e)

\* ---------------------------------------------------------------- useFhevm
\* useState(null), useState(true), useState(null); no effect has run
NoFhevmHook == [component |-> "none", fhevm |-> 0, isLoading |-> TRUE, error |-> <<>>,
                effects |-> <<>>]

\* a run of the effect: its local `mounted` and the promise of its init()
NewEffect == [mounted |-> TRUE, pc |-> "pending"]

\* the cleanup of the latest run of the effect: mounted = false
CleanedUp(effects) ==
  [n \in 1..Len(effects) |->
     IF n = Len(effects) THEN [effects[n] EXCEPT !.mounted = FALSE] ELSE effects[n]]

\* the test `if (mounted)` of the n-th run
StillMountedIgnored(n) == TRUE

StillMounted(n) == fh.effects[n].mounted

\* The component mounts: the effect runs, init() sets isLoading and calls
\* createFhevmInstance(config).
MountFhevm ==
  /\ fh.component = "none"
  /\ fh' = [fh EXCEPT !.component = "mounted", !.isLoading = TRUE,
                      !.effects = <<NewEffect>>]
  /\ UNCHANGED <<coreVars, hook, batch>>

\* config changes: the cleanup of the previous run, then the effect runs again
ConfigChanged ==
  /\ fh.component = "mounted"
  /\ Len(fh.effects) < MaxEffects
  /\ fh' = [fh EXCEPT !.isLoading = TRUE,
                      !.effects = Append(CleanedUp(fh.effects), NewEffect)]
  /\ UNCHANGED <<coreVars, hook, batch>>

\* the component unmounts: the cleanup of the latest run
Unmount ==
  /\ fh.component = "mounted"
  /\ fh' = [fh EXCEPT !.component = "unmounted", !.effects = CleanedUp(fh.effects)]
  /\ UNCHANGED <<coreVars, hook, batch>>

\* createFhevmInstance of the n-th run resolves (with the n-th instance)
InitResolved(n) ==
  /\ n \in 1..Len(fh.effects)
  /\ fh.effects[n].pc = "pending"
  /\ fh' = IF StillMounted(n)
             THEN [fh EXCEPT !.effects[n].pc = "resolved", !.fhevm = n,
                             !.error = <<>>, !.isLoading = FALSE]
             ELSE [fh EXCEPT !.effects[n].pc = "resolved"]
  /\ UNCHANGED <<coreVars, hook, batch>>

\* createFhevmInstance of the n-th run rejects with e: the catch branch
InitRejected(n, e) ==
  /\ n \in 1..Len(fh.effects)
  /\ fh.effects[n].pc = "pending"
  /\ fh' = IF StillMounted(n)
             THEN [fh EXCEPT !.effects[n].pc = "rejected", !.error = <<e>>,
                             !.isLoading = FALSE]
             ELSE [fh EXCEPT !.effects[n].pc = "rejected"]
  /\ UNCHANGED <<coreVars, hook, batch>>

MountNext ==
  \/ MountFhevm
  \/ ConfigChanged
  \/ Unmount
  \/ \E n \in 1..MaxEffects : InitResolved(n)
  \/ \E n \in 1..MaxEffects, e \in HookErrors : InitRejected(n, e)

\* ------------------------------------------------------------ batchEncrypt
\* the entries callers put into the values array
BatchTypes == {"euint8", "euint16", "ebool", "euint256"}

BatchEntries ==
  {[type |-> t, value |-> v] : t \in BatchTypes, v \in {1, 200}}

RECURSIVE SeqsUpTo(_, _)
SeqsUpTo(S, n) ==
  IF n = 0 THEN {<<>>}
  ELSE LET shorter == SeqsUpTo(S, n - 1)
       IN shorter \cup {Append(q, x) : q \in {r \in shorter : Len(r) = n - 1}, x \in S}

NoBatch == [pc |-> "idle", values |-> <<>>, items |-> <<>>, order |-> <<>>,
            result |-> <<>>, error |-> "none"]

UnsupportedBatchType == "Unsupported type"

\* the switch of the mapped async function: the method of fhevm it calls
BatchMethodOf(type) ==
  CASE type = "euint8"   -> "encrypt8"
    [] type = "euint16"  -> "encrypt16"
    [] type = "euint32"  -> "encrypt32"
    [] type = "euint64"  -> "encrypt64"
    [] type = "ebool"    -> "encryptBool"
    [] type = "eaddress" -> "encryptAddress"
    [] OTHER             -> "none"

\* the promise values.map(async ...) makes for one entry: rejected at once
\* by the default branch, pending on the fhevm method otherwise
ItemOf(entry) ==
  IF BatchMethodOf(entry.type) = "none"
    THEN [pc |-> "rejected", call |-> <<>>, out |-> <<>>, error |-> UnsupportedBatchType]
    ELSE [pc |-> "pending",
          call |-> <<[method |-> BatchMethodOf(entry.type), value |-> entry.value]>>,
          out |-> <<>>, error |-> "none"]

\* Promise.all(promises) of fulfilled promises: the values by position
GatheredAsCompleted(items, order) == [i \in 1..Len(items) |-> items[order[i]].out[1]]

Gathered(items, order) == [i \in 1..Len(items) |-> items[i].out[1]]

AllFulfilled(items) == \A i \in 1..Len(items) : items[i].pc = "fulfilled"

\* batchEncrypt(fhevm, values) is called: map starts every entry, then
\* Promise.all.  A promise already rejected rejects the batch; an empty
\* array resolves it.
BatchEncrypt(values) ==
  /\ batch.pc = "idle"
  /\ LET items == [i \in 1..Len(values) |-> ItemOf(values[i])]
         started == [batch EXCEPT !.values = values, !.items = items]
     IN batch' =
          IF \E i \in 1..Len(items) : items[i].pc = "rejected"
            THEN [started EXCEPT !.pc = "rejected", !.error = UnsupportedBatchType]
          ELSE IF Len(items) = 0
            THEN [started EXCEPT !.pc = "resolved"]
            ELSE [started EXCEPT !.pc = "running"]
  /\ UNCHANGED <<coreVars, hook, fh>>

\* the fhevm method of entry i resolves with the engine's output for its call
ItemFulfilled(i) ==
  /\ i \in 1..Len(batch.items)
  /\ batch.items[i].pc = "pending"
  /\ LET items == [batch.items EXCEPT ![i] =
                      [@ EXCEPT !.pc = "fulfilled",
                                !.out = EngineOutputs(batch.items[i].call)]]
         order == Append(batch.order, i)
         settled == [batch EXCEPT !.items = items, !.order = order]
     IN batch' =
          IF batch.pc = "running" /\ AllFulfilled(items)
            THEN [settled EXCEPT !.pc = "resolved", !.result = Gathered(items, order)]
            ELSE settled
  /\ UNCHANGED <<coreVars, hook, fh>>

\* the fhevm method of entry i rejects with e
ItemRejected(i, e) ==
  /\ i \in 1..Len(batch.items)
  /\ batch.items[i].pc = "pending"
  /\ LET settled == [batch EXCEPT !.items[i].pc = "rejected", !.items[i].error = e]
     IN batch' =
          IF batch.pc = "running"
            THEN [settled EXCEPT !.pc = "rejected", !.error = e]
            ELSE settled
  /\ UNCHANGED <<coreVars, hook, fh>>

BatchNext ==
  \/ \E values \in SeqsUpTo(BatchEntries, MaxBatch) : BatchEncrypt(values)
  \/ \E i \in 1..MaxBatch : ItemFulfilled(i)
  \/ \E i \in 1..MaxBatch, e \in HookErrors : ItemRejected(i, e)

\* ---------------------------------------------------------------- NETWORKS
\* export const NETWORKS: Record<string, NetworkConfig>
NETWORKS ==
  [name \in {"sepolia", "zamaDevnet", "zamaTestnet"} |->
     CASE name = "sepolia" ->
            [chainId |-> 11155111, name |-> "Sepolia",
             rpcUrl |-> "https://rpc.sepolia.org",
             gatewayUrl |-> "https://gateway.sepolia.zama.ai",
             aclAddress |-> "0x339EcE85B9E11a3A3AA557582784a15d7F82AAf2",
             kmsVerifierAddress |-> "0x12345..."]
       [] name = "zamaDevnet" ->
            [chainId |-> 9000, name |-> "Zama Devnet",
             rpcUrl |-> "https://devnet.zama.ai",
             gatewayUrl |-> "https://gateway.devnet.zama.ai",
             aclAddress |-> "0x2Fb4341...",
             kmsVerifierAddress |-> "0x67890..."]
       [] name = "zamaTestnet" ->
            [chainId |-> 8009, name |-> "Zama Testnet",
             rpcUrl |-> "https://fhevm-testnet.zama.ai",
             gatewayUrl |-> "https://gateway.testnet.zama.ai",
             aclAddress |-> NoAddress,
             kmsVerifierAddress |-> NoAddress]]

\* the names callers look up: the registered ones and two that are not
LookupNames == DOMAIN NETWORKS \cup {"doesNotExist", "mainnet"}

\* NETWORKS[name]: the property read of a plain object.  A name that is not
\* a key yields undefined (written <<>>); nothing is thrown.
Lookup(name) ==
  IF name \in DOMAIN NETWORKS
    THEN [outcome |-> "returned", profile |-> <<NETWORKS[name]>>]
    ELSE [outcome |-> "returned", profile |-> <<>>]

\* a caller reads NETWORKS[name]
LookupNetwork(name) ==
  /\ Len(lookups) < MaxLookups
  /\ lookups' = Append(lookups, [name |-> name, outcome |-> Lookup(name).outcome,
                                  profile |-> Lookup(name).profile])
  /\ UNCHANGED <<clientVars, aw, clock, requests, hook, fh, batch>>

RegistryNext == \E name \in LookupNames : LookupNetwork(name)

\* ------------------------------------------------------------------ Init
Config(g, a, k, n, na, nk) ==
  [gatewayUrl |-> g, aclAddress |-> a, kmsVerifierAddress |-> k,
   network |-> [chainId |-> 11155111, gatewayUrl |-> n,
                aclAddress |-> na, kmsVerifierAddress |-> nk]]

\* the configs that differ in the gateway: no address override, a profile
\* with both addresses
Configs ==
  {Config(g, NoAddress, NoAddress, n, ProfileAcl, ProfileKms) :
      g \in {NoUrl, OverrideUrl}, n \in {NoUrl, ProfileUrl}}

\* every combination of the optional fields of config and profile
AllConfigs ==
  {Config(g, a, k, n, na, nk) :
      g \in {NoUrl, OverrideUrl}, a \in {NoAddress, OverrideAcl},
      k \in {NoAddress, OverrideKms}, n \in {NoUrl, ProfileUrl},
      na \in {NoAddress, ProfileAcl}, nk \in {NoAddress, ProfileKms}}

\* a Client just constructed, nothing called yet
Fresh ==
  /\ instance = 0
  /\ isInitialized = FALSE
  /\ keyFetches = 0
  /\ enginesCreated = 0
  /\ ops = [o \in Ops |-> IdleOp]
  /\ builder = [created |-> FALSE, contractAddress |-> 0, userAddress |-> 0]
  /\ inputs = <<>>
  /\ addLog = <<>>
  /\ aw = NoAwait
  /\ clock = 0
  /\ requests = <<>>
  /\ lookups = <<>>
  /\ hook = NoHook
  /\ fh = NoFhevmHook
  /\ batch = NoBatch

Init == config \in Configs /\ Fresh

ConfigInit == config \in AllConfigs /\ Fresh

\* ------------------------------------------------- client operations
\* The continuation after `await this.ensureInitialized()` of a scalar
\* encrypt method: the engine primitive is called with the caller's value.
Delegate(op, h) ==
  [op EXCEPT !.pc = "encrypting", !.handle = h,
             !.url = <<>>, !.publicKey = "none", !.engineArgs = <<>>,
             !.calls = <<[method |-> PrimitiveOf(op.kind), value |-> op.value]>>]

\* ensureInitialized has produced handle h for the operation
Obtained(op, h) ==
  IF op.kind = "getEncrypted"
    THEN [op EXCEPT !.pc = "ready", !.handle = h,
                    !.url = <<>>, !.publicKey = "none", !.engineArgs = <<>>]
    ELSE Delegate(op, h)

\* A caller invokes encrypt8/16/32/64, encryptBool, encryptAddress or
\* Builder.getEncrypted.  The call runs synchronously through the test of
\* ensureInitialized and, when initialization is needed, through getPublicKey
\* up to the fetch.
StartOp(o, kind, value) ==
  /\ ops[o].pc = "idle"
  /\ \A q \in Ops : q < o => ops[q].pc # "idle"
  /\ (kind = "getEncrypted" => builder.created)
  /\ LET op == [IdleOp EXCEPT !.kind = kind, !.value = value, !.wasInit = isInitialized]
     IN IF ~NeedsInit
          THEN /\ ops' = [ops EXCEPT ![o] = Obtained(op, instance)]
               /\ UNCHANGED keyFetches
          ELSE IF GatewayUrl = NoUrl
            THEN /\ ops' = [ops EXCEPT ![o] = Failed(op, "Gateway URL not configured")]
                 /\ UNCHANGED keyFetches
            ELSE /\ ops' = [ops EXCEPT ![o] = [op EXCEPT !.pc = "fetching", !.url = KeyUrl]]
                 /\ keyFetches' = keyFetches + 1
  /\ UNCHANGED <<config, instance, isInitialized, enginesCreated, builder, inputs, addLog, aw, restVars>>

\* The GET /fhe-key of operation o settles.  getPublicKey returns
\* data.publicKey whatever the status; ensureInitialized then calls
\* createInstance with it.
KeyResponse(o, resp) ==
  /\ ops[o].pc = "fetching"
  /\ ops' = [ops EXCEPT ![o] =
       CASE resp = "network_error" -> Failed(@, "fetch failed")
         [] resp = "not_json"      -> Failed(@, "invalid json")
         [] resp = "ok_key"        -> [@ EXCEPT !.pc = "constructing", !.publicKey = "key",
                                                 !.engineArgs = <<EngineArgs>>]
         [] resp = "ok_nokey"      -> [@ EXCEPT !.pc = "constructing", !.publicKey = "undefined",
                                                 !.engineArgs = <<EngineArgs>>]
         [] resp = "status_nokey"  -> [@ EXCEPT !.pc = "constructing", !.publicKey = "undefined",
                                                 !.engineArgs = <<EngineArgs>>]]
  /\ UNCHANGED <<config, instance, isInitialized, keyFetches, enginesCreated,
                 builder, inputs, addLog, aw, restVars>>

\* createInstance of operation o resolves with a fresh engine handle:
\* this.instance and this.isInitialized are assigned.
EngineReady(o) ==
  /\ ops[o].pc = "constructing"
  /\ enginesCreated' = enginesCreated + 1
  /\ instance' = enginesCreated + 1
  /\ isInitialized' = TRUE
  /\ ops' = [ops EXCEPT ![o] = Obtained(@, enginesCreated + 1)]
  /\ UNCHANGED <<config, keyFetches, builder, inputs, addLog, aw, restVars>>

\* createInstance of operation o rejects: nothing is assigned.
EngineRejected(o) ==
  /\ ops[o].pc = "constructing"
  /\ ops' = [ops EXCEPT ![o] = Failed(@, "engine init rejected")]
  /\ UNCHANGED <<config, instance, isInitialized, keyFetches, enginesCreated,
                 builder, inputs, addLog, aw, restVars>>

\* instance.createEncryptedInput(this.contractAddress, this.userAddress)
EngineBuilderSwapped ==
  [contractAddress |-> builder.userAddress, userAddress |-> builder.contractAddress]

EngineBuilder ==
  [contractAddress |-> builder.contractAddress, userAddress |-> builder.userAddress]

\* getEncrypted resumes with the engine handle: it creates one engine
\* batch-builder, replays this.inputs and calls the engine's encrypt().
ReplayInputs(o) ==
  /\ ops[o].pc = "ready"
  /\ ops' = [ops EXCEPT ![o] = [@ EXCEPT !.pc = "encrypting",
                                         !.engineBuilders = Append(@, EngineBuilder),
                                         !.calls = Replay(inputs),
                                         !.encryptSteps = @ + 1]]
  /\ UNCHANGED <<config, instance, isInitialized, keyFetches, enginesCreated,
                 builder, inputs, addLog, aw, restVars>>

\* The engine call of operation o returns: the result is passed on as it is.
EngineReturns(o) ==
  /\ ops[o].pc = "encrypting"
  /\ ops' = [ops EXCEPT ![o] = [@ EXCEPT !.pc = "done", !.result = EngineOutputs(ops[o].calls)]]
  /\ UNCHANGED <<config, instance, isInitialized, keyFetches, enginesCreated,
                 builder, inputs, addLog, aw, restVars>>

\* The engine call of operation o throws: the error reaches the caller.
EngineThrows(o) ==
  /\ ops[o].pc = "encrypting"
  /\ ops' = [ops EXCEPT ![o] = Failed(@, "engine call failed")]
  /\ UNCHANGED <<config, instance, isInitialized, keyFetches, enginesCreated,
                 builder, inputs, addLog, aw, restVars>>

\* ------------------------------------------------- builder operations
AddressPairs == {<<51, 61>>, <<52, 62>>}

\* FhevmClientImpl.createEncryptedInput: a new builder, nothing else
CreateEncryptedInput(c, u) ==
  /\ ~builder.created
  /\ builder' = [created |-> TRUE, contractAddress |-> c, userAddress |-> u]
  /\ UNCHANGED <<config, instance, isInitialized, keyFetches, enginesCreated,
                 ops, inputs, addLog, aw, restVars>>

\* add8 .. addAddress: push {type, value}
AddX(method, value) ==
  /\ builder.created
  /\ Len(inputs) < MaxInputs
  /\ inputs' = Append(inputs, [type |-> TagOfAdd(method), value |-> value])
  /\ addLog' = Append(addLog, [method |-> method, value |-> value])
  /\ UNCHANGED <<config, instance, isInitialized, keyFetches, enginesCreated,
                 ops, builder, aw, restVars>>

\* the continuations of the operations in flight
Continue ==
  \/ \E o \in Ops, resp \in KeyResponses : KeyResponse(o, resp)
  \/ \E o \in Ops : EngineReady(o)
  \/ \E o \in Ops : EngineRejected(o)
  \/ \E o \in Ops : ReplayInputs(o)
  \/ \E o \in Ops : EngineReturns(o)
  \/ \E o \in Ops : EngineThrows(o)

\* Callers use the scalar operations and finalize the builder.
Next ==
  \/ \E o \in Ops, kind \in Kinds : \E value \in ArgsOf(kind) : StartOp(o, kind, value)
  \/ \E p \in AddressPairs : CreateEncryptedInput(p[1], p[2])
  \/ Continue

Spec == Init /\ [][Next]_vars

\* Callers fill the builder and finalize it.
BuilderNext ==
  \/ \E o \in Ops : /\ \A q \in Ops : ops[q].pc \in {"idle", "done", "failed"}
                    /\ StartOp(o, "getEncrypted", 0)
  \/ \E p \in AddressPairs : CreateEncryptedInput(p[1], p[2])
  \/ \E method \in AddMethods : \E value \in ValuesOf(TagOfAdd(method)) : AddX(method, value)
  \/ Continue

BuilderSpec == Init /\ [][BuilderNext]_vars

NoCallInFlight == \A q \in Ops : ops[q].pc \in {"idle", "done", "failed"}

\* Callers pass arguments at and beyond the limits of the domains, to the
\* scalar operations and to the builder, one call at a time.
BoundaryNext ==
  \/ \E o \in Ops, kind \in Kinds : \E value \in BoundaryArgsOf(kind) :
        NoCallInFlight /\ StartOp(o, kind, value)
  \/ \E p \in AddressPairs : CreateEncryptedInput(p[1], p[2])
  \/ \E method \in AddMethods : \E value \in BoundaryValuesOf(TagOfAdd(method)) :
        AddX(method, value)
  \/ Continue

BoundarySpec == Init /\ [][BoundaryNext]_vars

\* The first calls made on a fresh Client, in any order: encrypt and
\* getEncrypted one at a time, createEncryptedInput, requestDecryption and
\* awaitDecryption (up to its first fetch).
FirstUseNext ==
  \/ \E o \in Ops, kind \in Kinds : \E value \in ArgsOf(kind) :
        NoCallInFlight /\ StartOp(o, kind, value)
  \/ \E p \in AddressPairs : CreateEncryptedInput(p[1], p[2])
  \/ Continue
  \/ \E contractAddress \in ContractAddresses :
        RequestDecryption("0xc1", contractAddress, 0)
  \/ \E requestId \in RequestIds : StartAwait(requestId, NoOptions)

FirstUseSpec == Init /\ [][FirstUseNext]_vars

\* Clients of every config.  A Client is used either to encrypt (encrypt and
\* getEncrypted calls, one at a time) or to await a decryption with its polls.
ConfigNext ==
  \/ \E o \in Ops, kind \in Kinds : \E value \in ArgsOf(kind) :
        aw.pc = "idle" /\ NoCallInFlight /\ StartOp(o, kind, value)
  \/ \E p \in AddressPairs : CreateEncryptedInput(p[1], p[2])
  \/ Continue
  \/ \E requestId \in RequestIds :
        (\A o \in Ops : ops[o].pc = "idle") /\ StartAwait(requestId, NoOptions)
  \/ \E resp \in PollResponses, v \in DecryptedValues : PollResponse(resp, v, 0)
  \/ DelayElapsed

ConfigSpec == ConfigInit /\ [][ConfigNext]_vars

MountSpec == Init /\ [][MountNext]_vars

BatchSpec == Init /\ [][BatchNext]_vars

HookSpec == Init /\ [][HookNext]_vars

RegistrySpec == Init /\ [][RegistryNext]_vars

RequestSpec == Init /\ [][RequestNext]_vars

\* One awaitDecryption call against an arbitrary gateway.
PollSpec == Init /\ [][PollNext]_vars

\* Every fetch settles and every timer fires.
LivePollSpec ==
  /\ Init /\ [][PollNext]_vars
  /\ WF_vars(\E resp \in PollResponses, v \in DecryptedValues, lat \in Latencies :
               PollResponse(resp, v, lat))
  /\ WF_vars(DelayElapsed)

\* ================================================================ claims
Started(o) == ops[o].pc # "idle"

Initializing(o) == ops[o].pc \in {"fetching", "constructing"}

IsPrefix(a, b) == Len(a) <= Len(b) /\ \A i \in 1..Len(a) : a[i] = b[i]

\* C1: operations started on an uninitialized Client share one
\* initialization: at most one key fetch / engine construction is in flight
\* at any time, and no second engine handle is ever created.
C1_SingleInitialization ==
  /\ Cardinality({o \in Ops : Initializing(o)}) <= 1
  /\ enginesCreated <= 1

\* C2: once the Client is initialized, an operation that starts issues no
\* key fetch, constructs no engine and continues at once with the memoized
\* handle; no step taken on an initialized Client issues a key fetch.
C2_MemoizedHandleReused ==
  [][isInitialized =>
       /\ keyFetches' = keyFetches
       /\ \A o \in Ops :
            (~Started(o) /\ ops'[o].pc # "idle") =>
               /\ ops'[o].pc \in {"ready", "encrypting"}
               /\ ops'[o].handle = instance
               /\ enginesCreated' = enginesCreated]_vars

C2_Witness ==
  \E o, q \in Ops :
     /\ ops[o].pc = "done" /\ ~ops[o].wasInit
     /\ ops[q].pc = "done" /\ ops[q].wasInit /\ ops[q].handle = ops[o].handle
     /\ keyFetches = 1 /\ enginesCreated = 1

\* C3: when getEncrypted replays, the engine builder receives exactly the
\* addX calls made so far, in call order, each through the add-method of
\* the same name with the same value; the i-th handle returned belongs to
\* the i-th addX call and there are as many handles as replayed calls.
C3_ReplayInOrder ==
  /\ [](\A o \in Ops :
          (ops[o].kind = "getEncrypted" /\ ops[o].pc \in {"encrypting", "done"}) =>
             /\ IsPrefix(ops[o].calls, addLog)
             /\ ops[o].pc = "done" =>
                  /\ Len(ops[o].result) = Len(ops[o].calls)
                  /\ \A i \in 1..Len(ops[o].result) :
                       ops[o].result[i] = [by |-> addLog[i].method, of |-> addLog[i].value])
  /\ [][\A o \in Ops :
          (ops[o].pc = "ready" /\ ops'[o].pc = "encrypting") => ops'[o].calls = addLog]_vars

C3_Witness ==
  \E o \in Ops :
     /\ ops[o].kind = "getEncrypted" /\ ops[o].pc = "done"
     /\ Len(ops[o].result) = 2
     /\ ops[o].result[1].by = "add32" /\ ops[o].result[2].by = "add8"

\* C4: after one getEncrypted call on the Builder has returned its result,
\* a later getEncrypted call on it fails with BuilderAlreadyFinalized and
\* never reaches the engine.
C4_FinalizedAtMostOnce ==
  \A o, q \in Ops :
     (o < q /\ ops[o].kind = "getEncrypted" /\ ops[o].pc = "done" /\ Started(q)) =>
        /\ ops[q].pc = "failed"
        /\ ops[q].error = "BuilderAlreadyFinalized"

\* ---- awaitDecryption
AwaitRunning == aw.pc \in {"polling", "sleeping"}

AwaitEnded == aw.pc \in {"resolved", "timeout", "rejected"}

\* C5: every awaitDecryption call that starts polling ends, and ends once:
\* resolved, timed out or rejected.
C5_SettlesExactlyOnce ==
  /\ [](aw.outcomes <= 1)
  /\ [](AwaitEnded => aw.outcomes = 1)
  /\ (AwaitRunning ~> AwaitEnded)

C5_Witness == aw.pc = "timeout" /\ aw.outcomes = 1 /\ aw.polls = maxAttempts

\* C6: when the k-th poll is the first answered with a success body, the
\* call is resolved with that body's value after exactly k polls and k - 1
\* delays, and stays so.
C6_ResolvesAtFirstSuccess ==
  aw.firstSuccess # 0 =>
     /\ aw.pc = "resolved"
     /\ aw.result = aw.successValue
     /\ aw.polls = aw.firstSuccess
     /\ aw.delays = aw.firstSuccess - 1

C6_Witness ==
  aw.firstSuccess = 3 /\ aw.pc = "resolved" /\ aw.result = <<42>> /\ aw.polls = 3

\* C7: with the default options no poll is issued later than 30000 ms after
\* the first one, and the call does not run beyond that deadline.
DefaultTimeout == 30000

C7_DefaultDeadline ==
  (aw.pc # "idle" /\ ~aw.opts.given) =>
     /\ aw.lastPollAt <= DefaultTimeout
     /\ AwaitRunning => aw.now <= DefaultTimeout + delayMs + MaxLatency

\* C8: the caller's timeout is the deadline: no poll is issued after it.
C8_CallerTimeoutHonoured ==
  (aw.pc # "idle" /\ aw.opts.given) => aw.lastPollAt <= aw.opts.timeout

\* C9: a poll that ends in a network error or in a plain non-2xx response
\* does not end the call: a delay is started; after the delay the next poll
\* is issued, or the attempts are used up and the call times out.
C9_TransientErrorsSwallowed ==
  /\ [][(aw.pc = "polling" /\ aw' # aw /\ aw'.lastResp \in {"network_error", "status_plain"})
          => (aw'.pc = "sleeping" /\ aw'.polls = aw.polls /\ aw'.outcomes = 0)]_vars
  /\ [][(aw.pc = "sleeping" /\ aw' # aw)
          => /\ aw'.delays = aw.delays + 1
             /\ \/ aw'.pc = "polling" /\ aw'.polls = aw.polls + 1
                \/ aw'.pc = "timeout" /\ aw.polls = maxAttempts]_vars

C9_Witness ==
  /\ aw.pc = "polling" /\ aw.lastResp = "network_error"
  /\ aw.polls = 2 /\ aw.delays = 1 /\ aw.lastPollAt >= delayMs

\* C10: a poll answered with an explicit rejection ends the call at once
\* with DecryptionRejected.
C10_RejectionEndsCall ==
  aw.lastResp = "status_rejected" => aw.pc = "rejected"

\* C11: any two DecryptionRequests returned by requestDecryption on one
\* Client carry different requestIds, also when both calls fall into the
\* same millisecond.
C11_RequestIdsDistinct ==
  \A i, j \in 1..Len(requests) :
     i # j => requests[i].requestId # requests[j].requestId

\* the domain of a type tag (spec 4.3): 0 .. 2^w - 1 for an integer of w
\* bits, a well-formed address for eaddress
InDomain(tag, v) ==
  IF tag \in IntTags
    THEN v >= 0 /\ (Bits(tag) > 16 \/ v < 2^Bits(tag))
    ELSE v >= 0

\* C12: an encryptN call whose value is outside 0 .. 2^w - 1 never reaches
\* the engine primitive.
C12_RangeCheckedBeforeEngine ==
  \A o \in Ops :
     (ops[o].kind \in ScalarKinds /\ TagOfKind(ops[o].kind) \in IntTags
        /\ ~InDomain(TagOfKind(ops[o].kind), ops[o].value))
       => (ops[o].pc \notin {"encrypting", "done"} /\ ops[o].calls = <<>>)

MissingGateway == "Gateway URL not configured"

\* C13: with no gateway override and no gateway endpoint in the network
\* profile, every started encrypt / getEncrypted call and the awaitDecryption
\* call have failed with the missing-gateway error, no GET /fhe-key and no
\* poll was issued, no engine handle exists and the Client is uninitialized.
C13_MissingGatewayFailsFirst ==
  (config.gatewayUrl = NoUrl /\ config.network.gatewayUrl = NoUrl) =>
     /\ keyFetches = 0
     /\ enginesCreated = 0
     /\ instance = 0
     /\ ~isInitialized
     /\ \A o \in Ops : Started(o) =>
           (ops[o].pc = "failed" /\ ops[o].error = MissingGateway /\ ops[o].calls = <<>>)
     /\ aw.pc # "idle" =>
           (aw.pc = "failed" /\ aw.error = MissingGateway /\ aw.polls = 0)

C13_Witness ==
  /\ config.gatewayUrl = NoUrl /\ config.network.gatewayUrl = NoUrl
  /\ \A o \in Ops : ops[o].pc = "failed"
  /\ builder.created
  /\ aw.pc = "failed"

\* C17 as stated: the first decrypt call (requestDecryption or
\* awaitDecryption) on a Client with a gateway has issued the key fetch.
C17_DecryptTriggersInit ==
  (GatewayUrl # NoUrl /\ (aw.pc # "idle" \/ Len(requests) > 0)) => keyFetches >= 1

\* C17 amended: initialization is triggered by the first encrypt or
\* getEncrypted call and only then.  While no such call was made there is no
\* key fetch, no engine handle and the Client is uninitialized, whatever
\* createEncryptedInput, requestDecryption and awaitDecryption calls were
\* made; once such a call was made on a Client with a gateway, the key fetch
\* was issued.
C17_InitOnFirstEncryptOrFinalize ==
  /\ (\A o \in Ops : ~Started(o)) =>
        (keyFetches = 0 /\ enginesCreated = 0 /\ instance = 0 /\ ~isInitialized)
  /\ (GatewayUrl # NoUrl /\ \E o \in Ops : Started(o)) => keyFetches >= 1
  /\ isInitialized => \E o \in Ops : Started(o)

C17_Witness ==
  /\ builder.created
  /\ Len(requests) > 0
  /\ aw.pc = "polling"
  /\ ops[1].pc = "fetching"
  /\ keyFetches = 1
  /\ enginesCreated = 0

\* C14: createInstance is only ever called with a public key that a
\* successful GET /fhe-key response carried: an initialization whose response
\* had a non-success status or no publicKey field never reaches the engine
\* construction.
C14_EngineOnlyFromFetchedKey ==
  \A o \in Ops : ops[o].pc = "constructing" => ops[o].publicKey = "key"

\* C15: looking up sepolia and zamaDevnet returns two distinct profiles with
\* distinct chain ids, and looking up a name that is not registered fails
\* with UnknownNetwork instead of returning an absent profile.
C15_UnknownNetworkRejected ==
  \A i, j \in 1..Len(lookups) :
     /\ lookups[i].name \in {"sepolia", "zamaDevnet"} =>
           (lookups[i].outcome = "returned" /\ Len(lookups[i].profile) = 1)
     /\ (lookups[i].name = "sepolia" /\ lookups[j].name = "zamaDevnet") =>
           /\ lookups[i].profile # lookups[j].profile
           /\ lookups[i].profile[1].chainId # lookups[j].profile[1].chainId
     /\ lookups[i].name \notin {"sepolia", "zamaDevnet", "zamaTestnet"} =>
           (lookups[i].outcome = "UnknownNetwork" /\ lookups[i].profile = <<>>)

\* the engine's encrypt primitive of a type tag
EnginePrimitiveFor(tag) ==
  CASE tag = "euint8"   -> "encrypt8"
    [] tag = "euint16"  -> "encrypt16"
    [] tag = "euint32"  -> "encrypt32"
    [] tag = "euint64"  -> "encrypt64"
    [] tag = "ebool"    -> "encryptBool"
    [] tag = "eaddress" -> "encryptAddress"

IsScalar(o) == ops[o].kind \in ScalarKinds

\* the one engine call a scalar operation is expected to make
ExpectedCall(o) ==
  [method |-> EnginePrimitiveFor(TagOfKind(ops[o].kind)), value |-> ops[o].value]

C16_OneCallOfOwnPrimitive ==
  \A o \in Ops :
     IsScalar(o) =>
       /\ ops[o].pc \in {"encrypting", "done"} => ops[o].calls = <<ExpectedCall(o)>>
       /\ ops[o].pc \notin {"encrypting", "done"} => ops[o].calls = <<>>
       /\ ops[o].pc = "done" =>
             ops[o].result = <<[by |-> ExpectedCall(o).method, of |-> ops[o].value]>>

C16_SettledAtOnce ==
  \A o \in Ops :
     /\ (IsScalar(o) /\ ops[o].pc = "encrypting" /\ ops'[o] # ops[o]) =>
           \/ ops'[o].pc = "done" /\ ops'[o].calls = ops[o].calls
           \/ ops'[o].pc = "failed" /\ ops'[o].error = "engine call failed"
     /\ ops[o].pc \in {"done", "failed"} => ops'[o] = ops[o]

\* C16: a scalar encrypt operation makes exactly one engine call, to the
\* primitive of its own type tag and with the caller's value; what the engine
\* returns for that call is the operation's result; when the call throws the
\* operation fails in that step, and a settled operation calls nothing more.
C16_DelegatesOnceUnchanged ==
  []C16_OneCallOfOwnPrimitive /\ [][C16_SettledAtOnce]_vars

C16_Witness ==
  /\ ops[1].kind = "encrypt16" /\ ops[1].pc = "done"
  /\ ops[1].result = <<[by |-> "encrypt16", of |-> 65535]>>
  /\ ops[2].pc = "failed" /\ ops[2].error = "engine call failed"

\* override when one is given, the profile's value otherwise
OverrideElse(override, profile, absent) ==
  IF override # absent THEN override ELSE profile

EffectiveGateway == OverrideElse(config.gatewayUrl, config.network.gatewayUrl, NoUrl)

\* C18: the override-else-profile gateway is the one in the URL of the
\* public-key fetch, in the arguments of the engine construction and in the
\* URL of every decryption poll; the ACL and verifier addresses passed to the
\* engine are the override when given and the profile's otherwise.
C18_OneEffectiveEndpoint ==
  /\ \A o \in Ops :
        /\ ops[o].pc = "fetching" => ops[o].url = <<EffectiveGateway, "/fhe-key">>
        /\ ops[o].pc = "constructing" =>
              /\ Len(ops[o].engineArgs) = 1
              /\ ops[o].engineArgs[1].gatewayUrl = EffectiveGateway
              /\ ops[o].engineArgs[1].aclAddress =
                    OverrideElse(config.aclAddress, config.network.aclAddress, NoAddress)
              /\ ops[o].engineArgs[1].kmsVerifierAddress =
                    OverrideElse(config.kmsVerifierAddress,
                                 config.network.kmsVerifierAddress, NoAddress)
  /\ aw.pc \in {"polling", "sleeping"} =>
        aw.url = <<EffectiveGateway, "/decrypt/", aw.requestId>>

C18_Witness ==
  /\ config.gatewayUrl = OverrideUrl /\ config.network.gatewayUrl = ProfileUrl
  /\ config.aclAddress = NoAddress /\ config.network.aclAddress = ProfileAcl
  /\ config.kmsVerifierAddress = OverrideKms /\ config.network.kmsVerifierAddress = ProfileKms
  /\ ops[1].pc = "constructing"
  /\ ops[1].engineArgs = <<[chainId |-> 11155111, gatewayUrl |-> OverrideUrl,
                             aclAddress |-> ProfileAcl,
                             kmsVerifierAddress |-> OverrideKms]>>

\* each addX method with the type tag of its name
AddTagPairs ==
  {<<"add8", "euint8">>, <<"add16", "euint16">>, <<"add32", "euint32">>,
   <<"add64", "euint64">>, <<"addBool", "ebool">>, <<"addAddress", "eaddress">>}

\* C19: a step in which addX is called appends exactly one pair, of the
\* method's type tag and the caller's value, at the end of the builder's
\* sequence; the earlier pairs and the bound addresses stay as they were, no
\* key fetch is issued, no engine handle is created, the Client's
\* initialization state and every operation stay as they were.  The sequence
\* changes in no other step.
C19_AddIsPureAppend ==
  [][/\ addLog' # addLog =>
          /\ Len(addLog') = Len(addLog) + 1
          /\ SubSeq(addLog', 1, Len(addLog)) = addLog
          /\ Len(inputs') = Len(inputs) + 1
          /\ SubSeq(inputs', 1, Len(inputs)) = inputs
          /\ <<addLog'[Len(addLog')].method, inputs'[Len(inputs')].type>> \in AddTagPairs
          /\ inputs'[Len(inputs')].value = addLog'[Len(addLog')].value
          /\ builder' = builder
          /\ UNCHANGED <<instance, isInitialized, keyFetches, enginesCreated, ops>>
     /\ inputs' # inputs => addLog' # addLog]_vars

C19_Witness ==
  /\ ops[1].kind = "getEncrypted" /\ ops[1].pc = "done" /\ Len(ops[1].calls) = 1
  /\ Len(inputs) = 2
  /\ inputs[2] = [type |-> "euint16", value |-> 65535]
  /\ keyFetches = 1 /\ enginesCreated = 1

\* C20: every pair the builder holds has a value in the domain of its type
\* tag, and every call getEncrypted replays into the engine builder carries a
\* value in the domain of its add-method's tag.
C20_OnlyValidValuesAppended ==
  /\ \A i \in 1..Len(inputs) : InDomain(inputs[i].type, inputs[i].value)
  /\ \A o \in Ops :
        ops[o].kind = "getEncrypted" =>
          \A i \in 1..Len(ops[o].calls) :
             \E pair \in AddTagPairs :
                /\ pair[1] = ops[o].calls[i].method
                /\ InDomain(pair[2], ops[o].calls[i].value)

IsFinalize(o) == ops[o].kind = "getEncrypted"

C21_OneEngineBuilder ==
  \A o \in Ops :
     IsFinalize(o) =>
       /\ ops[o].pc \in {"fetching", "constructing", "ready"} =>
             (ops[o].engineBuilders = <<>> /\ ops[o].encryptSteps = 0 /\ ops[o].calls = <<>>)
       /\ ops[o].pc \in {"encrypting", "done"} =>
             /\ ops[o].engineBuilders =
                   <<[contractAddress |-> builder.contractAddress,
                      userAddress |-> builder.userAddress]>>
             /\ ops[o].encryptSteps = 1
       /\ ops[o].pc = "done" => Len(ops[o].result) = Len(ops[o].calls)

C21_EncryptAfterReplay ==
  \A o \in Ops :
     /\ (IsFinalize(o) /\ ops[o].pc = "ready" /\ ops'[o] # ops[o]) =>
           /\ ops'[o].pc = "encrypting"
           /\ Len(ops'[o].calls) = Len(inputs)
           /\ ops'[o].encryptSteps = 1
     /\ (IsFinalize(o) /\ ops[o].pc = "encrypting" /\ ops'[o] # ops[o]) =>
           \/ /\ ops'[o].pc = "done"
              /\ ops'[o].calls = ops[o].calls
              /\ ops'[o].engineBuilders = ops[o].engineBuilders
              /\ ops'[o].encryptSteps = ops[o].encryptSteps
              /\ ops'[o].result = EngineOutputs(ops[o].calls)
           \/ ops'[o].pc = "failed" /\ ops'[o].error = "engine call failed"

\* C21: a getEncrypted call creates exactly one engine batch-builder, with
\* the contractAddress and userAddress its Builder was created with, and
\* calls the engine builder's encrypt() exactly once, in the step that
\* replays the inputs; with no inputs no add-method is called, and what the
\* engine returns for the batch, or its rejection, is the call's outcome.
C21_OneBuilderOneEncrypt ==
  []C21_OneEngineBuilder /\ [][C21_EncryptAfterReplay]_vars

C21_Witness ==
  \E o \in Ops :
     /\ IsFinalize(o) /\ ops[o].pc = "done"
     /\ inputs = <<>> /\ ops[o].calls = <<>> /\ ops[o].result = <<>>
     /\ ops[o].engineBuilders = <<[contractAddress |-> 52, userAddress |-> 62]>>
     /\ ops[o].encryptSteps = 1

\* C22: an initialization that failed is never memoized as success.  The
\* step in which an initializing operation fails leaves the handle and the
\* initialized flag as they were; an operation whose key fetch brought no
\* public key ends as failed and never marks the Client initialized; and an
\* operation started on a Client that is not initialized attempts the
\* initialization again (it fetches the key, or fails for the missing gateway).
C22_FailedInitNotMemoized ==
  [][\A o \in Ops :
       /\ (Initializing(o) /\ ops'[o].pc = "failed") =>
             UNCHANGED <<instance, isInitialized, enginesCreated>>
       /\ (ops[o].pc = "constructing" /\ ops[o].publicKey # "key" /\ ops'[o] # ops[o]) =>
             (ops'[o].pc = "failed" /\ UNCHANGED <<instance, isInitialized, enginesCreated>>)
       /\ (ops[o].pc = "idle" /\ ops'[o].pc # "idle" /\ ~isInitialized) =>
             \/ ops'[o].pc = "fetching" /\ keyFetches' = keyFetches + 1
             \/ ops'[o].pc = "failed" /\ ops'[o].error = MissingGateway]_vars

\* C23: once the Client is marked initialized its handle is never replaced,
\* and all operations that obtained a handle obtained the same one.
C23_HandleReadOnly ==
  /\ [][isInitialized => (instance' = instance /\ isInitialized')]_vars
  /\ [](\A o, q \in Ops :
          (ops[o].handle # 0 /\ ops[q].handle # 0) => ops[o].handle = ops[q].handle)

\* C24: the call is resolved only by a success response whose body has a
\* value field, with that value and never with an absent one; every poll goes
\* to {gateway}/decrypt/{requestId} of the requestId passed in.
C24_ResolvesOnlyWithValue ==
  /\ aw.pc = "resolved" => (aw.lastResp = "ok_value" /\ Len(aw.result) = 1)
  /\ (aw.pc = "sleeping" /\ aw.lastResp = "ok_novalue") => aw.outcomes = 0
  /\ aw.pc \in {"polling", "sleeping"} =>
        (Len(aw.url) = 3 /\ aw.url[2] = "/decrypt/" /\ aw.url[3] = aw.requestId)

\* the attempts and delays of a call in each of its positions
C25_AttemptsBounded ==
  /\ aw.polls <= 30
  /\ aw.pc = "polling" => (aw.polls = aw.i + 1 /\ aw.delays = aw.i /\ aw.i < 30)
  /\ aw.pc = "sleeping" => (aw.polls = aw.i + 1 /\ aw.delays = aw.i /\ aw.i < 30)
  /\ aw.pc = "timeout" =>
        /\ aw.polls = 30 /\ aw.delays = 30 /\ aw.i = 30
        /\ aw.lastResp # "none"
        /\ aw.error = "Decryption timeout for request"
        /\ aw.errorRequestId = <<aw.requestId>>
        /\ aw.now >= 30 * 2000

\* a new poll only follows a delay, and every delay lasts 2000 ms
C25_DelayBetweenPolls ==
  /\ (aw.pc # "idle" /\ aw'.polls # aw.polls) =>
        (aw.pc = "sleeping" /\ aw'.polls = aw.polls + 1 /\ aw'.delays = aw.delays + 1)
  /\ (aw.pc = "sleeping" /\ aw' # aw) =>
        (aw'.now = aw.now + 2000 /\ aw'.delays = aw.delays + 1)
  /\ aw'.pc = "timeout" => aw.pc \in {"sleeping", "timeout"}

Outstanding(k) == hook.calls[k].pc = "pending"

\* C26: the hook's isLoading is true exactly while at least one invocation
\* of its callback is outstanding.
C26_LoadingWhileOutstanding ==
  hook.isLoading <=> (\E k \in Calls : Outstanding(k))

\* C27: an invocation that fails stores its error in the hook's error state,
\* rejects with that same error, sets isLoading to false and leaves the
\* result as it was; an invocation that starts clears the error state; an
\* invocation made while fhevm is null rejects and leaves result, isLoading
\* and error as they were.
C27_FailureKeepsResult ==
  [][\A k \in Calls :
       /\ (hook.calls[k].pc = "pending" /\ hook'.calls[k].pc = "rejected") =>
             /\ Len(hook'.calls[k].outcome) = 1
             /\ hook'.error = hook'.calls[k].outcome
             /\ ~hook'.isLoading
             /\ hook'.result = hook.result
       /\ (hook.calls[k].pc = "idle" /\ hook'.calls[k].pc = "pending") =>
             (hook'.error = <<>> /\ hook'.isLoading /\ hook'.result = hook.result)
       /\ (hook.calls[k].pc = "idle" /\ hook'.calls[k].pc = "rejected" /\ hook.fhevm # 0) =>
             /\ hook'.error = <<"Unsupported encryption type">>
             /\ hook'.calls[k].outcome = hook'.error
             /\ ~hook'.isLoading
             /\ hook'.result = hook.result
       /\ (hook.calls[k].pc = "idle" /\ hook'.calls[k].pc # "idle" /\ hook.fhevm = 0) =>
             /\ hook'.calls[k].pc = "rejected"
             /\ hook'.calls[k].outcome = <<"FHEVM instance not initialized">>
             /\ hook'.result = hook.result
             /\ hook'.isLoading = hook.isLoading
             /\ hook'.error = hook.error]_vars

C27_Witness ==
  /\ hook.name = "useDecrypt"
  /\ hook.calls[1].pc = "resolved" /\ hook.result = hook.calls[1].outcome
  /\ hook.calls[2].pc = "rejected" /\ hook.calls[2].outcome = <<"E2">>
  /\ hook.error = <<"E2">>
  /\ ~hook.isLoading

\* the latest run of useFhevm's effect, while the component is mounted
CurrentEffect == Len(fh.effects)

Settles(n) ==
  /\ n <= Len(fh.effects)
  /\ fh.effects[n].pc = "pending"
  /\ fh'.effects[n].pc # "pending"

C28_LoadingUntilSettled ==
  /\ \A n \in 1..Len(fh.effects) :
        fh.effects[n].mounted => (n = CurrentEffect /\ fh.component = "mounted")
  /\ fh.component = "mounted" =>
        (fh.isLoading <=> fh.effects[CurrentEffect].pc = "pending")
  /\ fh.fhevm # 0 => fh.effects[fh.fhevm].pc = "resolved"

C28_OnlyCurrentWrites ==
  /\ \A n \in 1..MaxEffects :
        (Settles(n) /\ (n # CurrentEffect \/ fh.component # "mounted")) =>
           (fh'.fhevm = fh.fhevm /\ fh'.error = fh.error /\ fh'.isLoading = fh.isLoading)
  /\ (fh'.fhevm # fh.fhevm \/ fh'.error # fh.error) =>
        (fh.component = "mounted" /\ Settles(CurrentEffect))
  /\ (fh.isLoading /\ ~fh'.isLoading) =>
        (fh.component = "mounted" /\ Settles(CurrentEffect))

\* C28: a run of useFhevm's effect that was cleaned up before its
\* initialization settled writes neither fhevm nor error nor isLoading when
\* it settles; these are only written when the initialization of the latest
\* run of a mounted component settles; and while the component is mounted
\* isLoading is true exactly until that initialization has settled.
C28_CleanedUpNeverWrites ==
  []C28_LoadingUntilSettled /\ [][C28_OnlyCurrentWrites]_vars

C28_Witness ==
  /\ fh.component = "mounted"
  /\ Len(fh.effects) = 2
  /\ fh.effects[1].pc = "resolved" /\ ~fh.effects[1].mounted
  /\ fh.effects[2].pc = "pending"
  /\ fh.fhevm = 0 /\ fh.isLoading

\* C29: a batchEncrypt call that resolves returns, at position i, what the
\* engine primitive of the i-th entry's type tag produced for the i-th
\* entry's value, one per entry and whatever the order of completion; a
\* batch with an entry of an unsupported type, or with an encryption that
\* failed, is rejected and never resolves.
C29_ResultsInInputOrder ==
  /\ batch.pc = "resolved" =>
        /\ Len(batch.result) = Len(batch.values)
        /\ \A i \in 1..Len(batch.values) :
              /\ batch.values[i].type \in Tags
              /\ batch.result[i] =
                    [by |-> EnginePrimitiveFor(batch.values[i].type),
                     of |-> batch.values[i].value]
  /\ (batch.pc # "idle" /\ \E i \in 1..Len(batch.values) : batch.values[i].type \notin Tags) =>
        (batch.pc = "rejected" /\ batch.error = "Unsupported type")
  /\ (\E i \in 1..Len(batch.items) : batch.items[i].pc = "rejected") =>
        (batch.pc = "rejected" /\ batch.result = <<>>)

C29_Witness ==
  /\ batch.pc = "resolved"
  /\ Len(batch.values) = 2
  /\ batch.values[1].type = "euint16" /\ batch.values[2].type = "ebool"
  /\ batch.order = <<2, 1>>
  /\ batch.result[1].by = "encrypt16" /\ batch.result[2].by = "encryptBool"

====
